---- MODULE Spec2Model ----
(***************************************************************************)
(* NewsScraper (src/main.py): a thread pool crawls listing pages, extracts *)
(* the articles each one links to, stores them and per-page statistics in  *)
(* MongoDB, then counts the most common words of all stored article texts. *)
(*                                                                         *)
(* Strings are sequences of one-character strings, HTML documents are      *)
(* records of what BeautifulSoup finds in them, MongoDB collections are    *)
(* sequences of documents in insertion order.                              *)
(***************************************************************************)
EXTENDS Integers, Sequences, FiniteSets, TLC

\* ------------------------------------------------------------------ bounds
MaxTexts == 2        \* texts handed to find_most_common_words
MaxRuns == 2         \* successive calls of find_most_common_words
MaxAnchors == 22     \* post-link anchors of an enumerated listing page
MaxImgs == 2         \* article images of an enumerated article page
MaxPages == 2        \* pages of the crawl (max_page_numbers)
MaxThreads == 2      \* the larger of the two pool sizes compared (threads)

\* ------------------------------------------------------- program constants
WindowStart == 10    \* [10:20], the slice of the post-link anchors
WindowEnd == 20
TopN == 10           \* most_common(10)

\* ------------------------------------------------------------------ values
NoAttr == "NoAttr"           \* an element that lacks the attribute asked for
Whitespace == {" ", "\t", "\n"}

Min(a, b) == IF a < b THEN a ELSE b

\* ------------------------------------------------------------ str helpers
\* sep.join(parts)
RECURSIVE Join(_, _)
Join(sep, parts) ==
  IF parts = <<>> THEN <<>>
  ELSE IF Len(parts) = 1 THEN parts[1]
  ELSE parts[1] \o sep \o Join(sep, Tail(parts))

\* str.split() without arguments: the maximal runs of non-whitespace
RECURSIVE SplitFrom(_, _, _)
SplitFrom(s, cur, out) ==
  IF s = <<>> THEN (IF cur = <<>> THEN out ELSE Append(out, cur))
  ELSE IF Head(s) \in Whitespace
       THEN SplitFrom(Tail(s), <<>>, IF cur = <<>> THEN out ELSE Append(out, cur))
       ELSE SplitFrom(Tail(s), Append(cur, Head(s)), out)

Split(s) == SplitFrom(s, <<>>, <<>>)

\* str.strip(): leading and trailing whitespace removed
RECURSIVE LStrip(_)
LStrip(s) ==
  IF s # <<>> /\ Head(s) \in Whitespace THEN LStrip(Tail(s)) ELSE s

RECURSIVE RStrip(_)
RStrip(s) ==
  IF s # <<>> /\ s[Len(s)] \in Whitespace THEN RStrip(SubSeq(s, 1, Len(s) - 1)) ELSE s

Strip(s) == RStrip(LStrip(s))

\* ---------------------------------------------------- collections.Counter
\* A Counter is a dict: its items are kept in the order of first insertion.
CounterAdd(counter, w) ==
  IF \E i \in 1..Len(counter) : counter[i].word = w
  THEN [i \in 1..Len(counter) |->
          IF counter[i].word = w
          THEN [word |-> w, count |-> counter[i].count + 1]
          ELSE counter[i]]
  ELSE Append(counter, [word |-> w, count |-> 1])

RECURSIVE CounterFrom(_, _)
CounterFrom(words, counter) ==
  IF words = <<>> THEN counter
  ELSE CounterFrom(Tail(words), CounterAdd(counter, Head(words)))

Counter(words) == CounterFrom(words, <<>>)

\* a variant that puts an item before those of equal count
InsertByCountUnstable(sorted, item) ==
  LET before == {i \in 1..Len(sorted) : sorted[i].count > item.count}
      k == Cardinality(before)
  IN SubSeq(sorted, 1, k) \o <<item>> \o SubSeq(sorted, k + 1, Len(sorted))

\* sorted(items, key=count, reverse=True): stable, so items of equal count
\* keep the order they have in the Counter
InsertByCount(sorted, item) ==
  LET before == {i \in 1..Len(sorted) : sorted[i].count >= item.count}
      k == Cardinality(before)
  IN SubSeq(sorted, 1, k) \o <<item>> \o SubSeq(sorted, k + 1, Len(sorted))

RECURSIVE SortedByCount(_, _)
SortedByCount(items, sorted) ==
  IF items = <<>> THEN sorted
  ELSE SortedByCount(Tail(items), InsertByCount(sorted, Head(items)))

\* Counter.most_common(n)
most_common(counter, n) ==
  LET all == SortedByCount(counter, <<>>)
  IN SubSeq(all, 1, Min(n, Len(all)))

\* ------------------------------------------------------------ HTML pages
\* What soup.find / find_all give on a page: an element, or nothing.
Absent == [present |-> FALSE, text |-> <<>>]
Elem(t) == [present |-> TRUE, text |-> t]
NoBody == [present |-> FALSE, paragraphs |-> <<>>]
Body(ps) == [present |-> TRUE, paragraphs |-> ps]

\* a timestamp '%Y-%m-%dT%H:%M:%S%z': date <<year, month, day>>, the rest
Stamp(d, t) == [date |-> d, time |-> t]
NoStamp == Stamp(<<>>, "")

\* the rank-math-schema script: kind says how far json_data['@graph'][5] gets
Meta(k, p, m) == [kind |-> k, datePublished |-> p, dateModified |-> m]

\* datetime.strptime(s, '%Y-%m-%dT%H:%M:%S%z').strftime('%Y-%m-%d'): the
\* date of the timestamp as written, time and offset dropped
FormatDate(stamp) == stamp.date

\* python's s[lo:hi] for 0 <= lo <= hi
Slice(s, lo, hi) ==
  IF Min(hi, Len(s)) <= lo THEN <<>> ELSE SubSeq(s, lo + 1, Min(hi, Len(s)))

\* ----------------------------------------------------------- fetch_news
\* a variant that skips an image without the attribute
ImgSkipMissing(imgs) ==
  [raised |-> FALSE, list |-> SelectSeq(imgs, LAMBDA x : x # NoAttr)]

\* [img['data-src'] for img in img_tags]: a KeyError when one lacks it
ImgUrlList(imgs) ==
  IF \E i \in 1..Len(imgs) : imgs[i] = NoAttr
  THEN [raised |-> TRUE, list |-> <<>>]
  ELSE [raised |-> FALSE, list |-> imgs]

\* ' '.join([p.text.strip() for p in paragraphs])
BodyText(paragraphs) ==
  Join(<<" ">>, [i \in 1..Len(paragraphs) |-> Strip(paragraphs[i])])

Failed(kind) == [data |-> <<>>, log |-> kind]

\* The result of fetch_news(url) on the page `doc`: data is <<record>>, or
\* <<>> for None; log is the except clause that logged, or "none".
fetch_news(url, doc) ==
  IF doc.status # "ok" THEN Failed("RequestException")
  ELSE IF ~doc.title.present THEN Failed("Exception")
  ELSE IF ~doc.summary.present THEN Failed("Exception")
  ELSE IF ~doc.body.present THEN Failed("Exception")
  ELSE IF ImgUrlList(doc.imgs).raised THEN Failed("Exception")
  ELSE IF doc.meta.kind = "no_script" THEN Failed("Exception")
  ELSE IF doc.meta.kind = "bad_json" THEN Failed("JSONDecodeError")
  ELSE IF doc.meta.kind # "ok" THEN Failed("Exception")
  ELSE [data |-> << [url |-> url,
                     header |-> Strip(doc.title.text),
                     summary |-> Strip(doc.summary.text),
                     text |-> BodyText(doc.body.paragraphs),
                     img_url_list |-> ImgUrlList(doc.imgs).list,
                     publish_date |-> FormatDate(doc.meta.datePublished),
                     update_date |-> FormatDate(doc.meta.dateModified)] >>,
        log |-> "none"]

\* ------------------------------------------- fetch_page: the listing part
Anchor(h) == [has_href |-> TRUE, href |-> h]
AnchorNoHref == [has_href |-> FALSE, href |-> 0]

\* a variant that takes the slice [0:10]
NewsLinksFirstTen(doc) ==
  IF doc.status # "ok" THEN [ok |-> FALSE, log |-> "RequestException", links |-> <<>>]
  ELSE LET window == Slice(doc.anchors, 0, WindowStart)
       IN IF \E i \in 1..Len(window) : ~window[i].has_href
          THEN [ok |-> FALSE, log |-> "Exception", links |-> <<>>]
          ELSE [ok |-> TRUE, log |-> "none",
                links |-> [i \in 1..Len(window) |-> window[i].href]]

\* response, soup and news_links of fetch_page; a failure is what the except
\* clauses of fetch_page catch, and fetch_page then returns []
NewsLinks(doc) ==
  IF doc.status # "ok" THEN [ok |-> FALSE, log |-> "RequestException", links |-> <<>>]
  ELSE LET window == Slice(doc.anchors, WindowStart, WindowEnd)
       IN IF \E i \in 1..Len(window) : ~window[i].has_href
          THEN [ok |-> FALSE, log |-> "Exception", links |-> <<>>]
          ELSE [ok |-> TRUE, log |-> "none",
                links |-> [i \in 1..Len(window) |-> window[i].href]]

\* ------------------------------------------------ find_most_common_words
\* What one call does to the word_frequency collection `coll`. failAt says
\* which MongoDB operation raises: 0 the connection or delete_many, k the
\* k-th insert_one, Len(most_common_words) + 1 none. plotFails: the plot
\* raises (it always does on an empty list: zip(*[]) unpacks to nothing).
WordEntry(item) == [word |-> item.word, count |-> item.count]

\* a variant without delete_many
FindAppending(texts, coll, failAt, plotFails) ==
  LET combined_text == Join(<<" ">>, texts)
      words == Split(combined_text)
      word_counter == Counter(words)
      mcw == most_common(word_counter, TopN)
      inserted == Min(failAt - 1, Len(mcw))
  IN [words |-> words,
      assigned |-> TRUE,
      most_common_words |-> mcw,
      storage_failed |-> failAt <= Len(mcw),
      plotted |-> failAt > Len(mcw) /\ mcw # <<>> /\ ~plotFails,
      coll |-> coll \o [i \in 1..inserted |-> WordEntry(mcw[i])]]

find_most_common_words(texts, coll, failAt, plotFails) ==
  LET combined_text == Join(<<" ">>, texts)
      words == Split(combined_text)
      word_counter == Counter(words)
      mcw == most_common(word_counter, TopN)
      inserted == Min(failAt - 1, Len(mcw))
  IN IF failAt = 0
     THEN [words |-> words,
           assigned |-> FALSE,
           most_common_words |-> <<>>,
           storage_failed |-> TRUE,
           plotted |-> FALSE,
           coll |-> coll]
     ELSE [words |-> words,
           assigned |-> TRUE,
           most_common_words |-> mcw,
           storage_failed |-> failAt <= Len(mcw),
           plotted |-> failAt > Len(mcw) /\ mcw # <<>> /\ ~plotFails,
           coll |-> [i \in 1..inserted |-> WordEntry(mcw[i])]]

\* the number of insert_one calls a call on `texts` makes when none fails
InsertCount(texts) ==
  Len(most_common(Counter(Split(Join(<<" ">>, texts))), TopN))

NoCall ==
  [words |-> <<>>, assigned |-> FALSE, most_common_words |-> <<>>,
   storage_failed |-> FALSE, plotted |-> FALSE, coll |-> <<>>]

\* ------------------------------------------------------------------ state
VARIABLES
  threads,           \* max_workers of the pool
  listingWeb,        \* the site: page number -> listing page served
  articleWeb,        \* the site: article URL -> article page served
  newsInsertOK,      \* MongoDB: page number -> insert_many of that page works
  mainpc,            \* position of main()
  nextPage,          \* next page number executor.map submits
  queue,             \* the executor's work queue
  running,           \* the pages the worker threads are running
  pc,                \* page -> position of analyze_and_store_data(page)
  news_links,        \* page -> news_links of fetch_page
  attempted,         \* page -> the URLs fetch_news was called with, in order
  news,              \* page -> news of fetch_page / analyze_and_store_data
  stats_args,        \* page -> the arguments handed to store_stats
  stats_collection,  \* db['stats']
  news_collection,   \* db['news']
  word_frequency_collection,  \* db['word_frequency']
  all_news_texts,    \* the texts handed to find_most_common_words
  wf_call,           \* locals and outcome of the last find_most_common_words
  runs,              \* calls of find_most_common_words so far
  prev_call,         \* locals and outcome of the call before the last
  report,            \* what print_data_grouped_by_update_date printed
  listing_doc,       \* a listing page, and
  listing_result,    \*   what the listing part of fetch_page made of it
  article_doc,       \* an article page, and
  article_result     \*   what fetch_news made of it

crawlVars ==
  <<threads, listingWeb, articleWeb, newsInsertOK, mainpc, nextPage, queue,
    running, pc, news_links, attempted, news, stats_args, stats_collection,
    news_collection, report>>
wordVars ==
  <<word_frequency_collection, all_news_texts, wf_call, runs, prev_call>>
listingVars == <<listing_doc, listing_result>>
extractVars == <<article_doc, article_result>>
vars == <<crawlVars, wordVars, listingVars, extractVars>>

\* ------------------------------------------------------ enumerated inputs
SeqsUpTo(S, n) == UNION {[1..k -> S] : k \in 0..n}

\* listing pages: m anchors, the one at position `missing` without an href
HrefAt(i) == 100 + i

ListingOf(m, missing) ==
  [status |-> "ok",
   anchors |-> [i \in 1..m |-> IF i = missing THEN AnchorNoHref ELSE Anchor(HrefAt(i - 1))]]

ListingDown == [status |-> "error", anchors |-> <<>>]

ListingDocs ==
  {ListingDown} \cup {ListingOf(m, missing) : m \in 0..MaxAnchors, missing \in 0..MaxAnchors}

\* article pages
GoodMeta == Meta("ok", Stamp(<<2023, 5, 1>>, "10:00:00+03:00"), Stamp(<<2023, 5, 2>>, "23:30:00+03:00"))
Metas ==
  {GoodMeta} \cup {Meta(k, NoStamp, NoStamp) : k \in {"no_script", "bad_json", "short_graph", "bad_date"}}

ArticleDocs ==
  [status : {"ok", "error"},
   title : {Absent, Elem(<<" ", "a">>)},
   summary : {Absent, Elem(<<"b", " ">>)},
   body : {NoBody, Body(<<>>), Body(<< <<" ", "a">>, <<"b", "\n">> >>)},
   imgs : SeqsUpTo({NoAttr, "i1", "i2"}, MaxImgs),
   meta : Metas]

\* texts
ExampleTexts == << <<"a", " ", "b", " ", "b">>, <<"c", " ", "c", " ", "c">> >>
LongText ==
  Join(<<" ">>, << <<"a">>, <<"b">>, <<"c">>, <<"d">>, <<"e">>, <<"f">>, <<"g">>,
                   <<"h">>, <<"i">>, <<"j">>, <<"k">>, <<"k">> >>)
TextPool ==
  {ExampleTexts[1], ExampleTexts[2], LongText,
   <<>>, <<" ", "a", "\t", "\n", "b", "a", " ">>}

\* --------------------------------------------------------- idle components
CrawlIdle ==
  /\ threads = 0
  /\ listingWeb = <<>>
  /\ articleWeb = <<>>
  /\ newsInsertOK = <<>>
  /\ mainpc = "idle"
  /\ nextPage = 0
  /\ queue = <<>>
  /\ running = {}
  /\ pc = <<>>
  /\ news_links = <<>>
  /\ attempted = <<>>
  /\ news = <<>>
  /\ stats_args = <<>>
  /\ stats_collection = <<>>
  /\ news_collection = <<>>
  /\ report = <<>>

WordsIdle ==
  /\ word_frequency_collection = <<>>
  /\ all_news_texts = <<>>
  /\ wf_call = NoCall
  /\ runs = 0
  /\ prev_call = NoCall

Pending == [done |-> FALSE]

ListingIdle ==
  /\ listing_doc = ListingDown
  /\ listing_result = Pending

ExtractIdle ==
  /\ article_doc = ListingDown
  /\ article_result = Pending

\* ------------------------------------------- the listing part of fetch_page
InitListing ==
  /\ listing_doc \in ListingDocs
  /\ listing_result = Pending
  /\ CrawlIdle /\ WordsIdle /\ ExtractIdle

FetchLinks ==
  /\ ~listing_result.done
  /\ listing_result' = [done |-> TRUE, got |-> NewsLinks(listing_doc)]
  /\ UNCHANGED <<listing_doc, crawlVars, wordVars, extractVars>>

NextListing == FetchLinks

SpecListing == InitListing /\ [][NextListing]_vars

\* ---------------------------------------------------------------- fetch_news
InitExtract ==
  /\ article_doc \in ArticleDocs
  /\ article_result = Pending
  /\ CrawlIdle /\ WordsIdle /\ ListingIdle

FetchNews ==
  /\ ~article_result.done
  /\ article_result' = [done |-> TRUE, got |-> fetch_news(1, article_doc)]
  /\ UNCHANGED <<article_doc, crawlVars, wordVars, listingVars>>

NextExtract == FetchNews

SpecExtract == InitExtract /\ [][NextExtract]_vars

\* ------------------------------------------------- find_most_common_words
InitWords ==
  /\ all_news_texts \in SeqsUpTo(TextPool, MaxTexts)
  /\ word_frequency_collection = <<>>
  /\ wf_call = NoCall
  /\ runs = 0
  /\ prev_call = NoCall
  /\ CrawlIdle /\ ListingIdle /\ ExtractIdle

FindMostCommonWords ==
  /\ runs < MaxRuns
  /\ \E failAt \in 0..(InsertCount(all_news_texts) + 1), plotFails \in BOOLEAN :
       LET r == find_most_common_words(all_news_texts, word_frequency_collection,
                                       failAt, plotFails)
       IN /\ plotFails => failAt = InsertCount(all_news_texts) + 1
          /\ wf_call' = r
          /\ word_frequency_collection' = r.coll
          /\ prev_call' = wf_call
  /\ runs' = runs + 1
  /\ UNCHANGED <<all_news_texts, crawlVars, listingVars, extractVars>>

NextWords == FindMostCommonWords

SpecWords == InitWords /\ [][NextWords]_vars

\* ------------------------------------------------- analyze_and_store_data
\* a variant that leaves the loop at the first failure
fetch_loop_stop_on_failure(links, done, collected, web) ==
  LET url == links[Len(done) + 1]
      news_data == fetch_news(url, web[url]).data
  IN [attempted |-> Append(done, url),
      news |-> IF news_data # <<>> THEN Append(collected, news_data[1]) ELSE collected,
      finished |-> news_data = <<>> \/ Len(done) + 1 = Len(links)]

\* for link in news_links: one turn of the loop of fetch_page, on the URLs
\* not yet fetched. `web` is the site.
fetch_loop_step(links, done, collected, web) ==
  LET url == links[Len(done) + 1]
      news_data == fetch_news(url, web[url]).data
  IN [attempted |-> Append(done, url),
      news |-> IF news_data # <<>> THEN Append(collected, news_data[1]) ELSE collected,
      finished |-> Len(done) + 1 = Len(links)]

\* a variant whose fail_count is the number of URLs that gave no record
analyze_counting_failures(newsList, attemptedUrls) ==
  [count |-> Len(newsList),
   success_count |-> Len(newsList),
   fail_count |-> Len(attemptedUrls) - Len(newsList)]

\* count, success_count and fail_count of analyze_and_store_data; every item
\* of news is a non-empty dict, hence truthy
analyze(newsList, attemptedUrls) ==
  LET count == Len(newsList)
      success_count == Len(SelectSeq(newsList, LAMBDA item : TRUE))
  IN [count |-> count,
      success_count |-> success_count,
      fail_count |-> count - success_count]

\* a variant without the try
store_stats_unguarded(coll, args, ok) ==
  IF ok THEN [coll |-> Append(coll, args), raised |-> FALSE]
  ELSE [coll |-> coll, raised |-> TRUE]

\* store_stats: the document is inserted, or the failure is logged
store_stats(coll, args, ok) ==
  IF ok THEN [coll |-> Append(coll, args), raised |-> FALSE]
  ELSE [coll |-> coll, raised |-> FALSE]

\* a variant that replaces the collection
store_news_data_replacing(coll, batch, ok) ==
  IF ok THEN [coll |-> batch, raised |-> FALSE]
  ELSE [coll |-> coll, raised |-> FALSE]

\* store_news_data: insert_many, or the failure is logged
store_news_data(coll, batch, ok) ==
  IF ok THEN [coll |-> coll \o batch, raised |-> FALSE]
  ELSE [coll |-> coll, raised |-> FALSE]

\* ----------------------------------------- print_data_grouped_by_update_date
DateLess(a, b) ==
  \/ a[1] < b[1]
  \/ a[1] = b[1] /\ a[2] < b[2]
  \/ a[1] = b[1] /\ a[2] = b[2] /\ a[3] < b[3]

RECURSIVE SortedDates(_)
SortedDates(D) ==
  IF D = {} THEN <<>>
  ELSE LET least == CHOOSE d \in D : \A e \in D \ {d} : DateLess(d, e)
       IN <<least>> \o SortedDates(D \ {least})

\* $group by update_date with $sum and $push, $sort by _id ascending
GroupedByUpdateDate(coll) ==
  LET dates == SortedDates({coll[i].update_date : i \in 1..Len(coll)})
  IN [k \in 1..Len(dates) |->
        LET members == SelectSeq(coll, LAMBDA r : r.update_date = dates[k])
        IN [_id |-> dates[k],
            count |-> Len(members),
            news |-> [i \in 1..Len(members) |->
                        [header |-> members[i].header,
                         update_date |-> members[i].update_date]]]]

\* ------------------------------------------------------------- the site
Pages == 1..MaxPages
Urls == {1, 2, 3}

\* the href of the anchor at position i of listing page p
CrawlHref(p, i) == ((p + i) % 3) + 1

CrawlListing(p, m) ==
  [status |-> "ok", anchors |-> [i \in 1..m |-> Anchor(CrawlHref(p, i - 1))]]

CrawlListings(p) == {ListingDown, CrawlListing(p, 11), CrawlListing(p, 12)}

GoodArticle(u) ==
  [status |-> "ok",
   title |-> Elem(<<"a">>),
   summary |-> Elem(<<"b">>),
   body |-> Body(<< IF u = 1 THEN <<"a", " ", "b">> ELSE <<"b">> >>),
   imgs |-> <<"i1">>,
   meta |-> Meta("ok", Stamp(<<2023, 5, 1>>, "10:00:00+03:00"),
                 Stamp(<<2023, 5, IF u = 2 THEN 1 ELSE 2>>, "23:30:00+03:00"))]

CrawlArticles(u) ==
  {GoodArticle(u), [GoodArticle(u) EXCEPT !.imgs = <<"i1", NoAttr>>]}

\* ------------------------------------------------------------- the crawl
PostPass == {"find", "words", "report", "done", "crashed"}

Init ==
  /\ threads \in {1, MaxThreads}
  /\ listingWeb \in {f \in [Pages -> UNION {CrawlListings(p) : p \in Pages}] :
                       \A p \in Pages : f[p] \in CrawlListings(p)}
  /\ articleWeb \in {f \in [Urls -> UNION {CrawlArticles(u) : u \in Urls}] :
                       \A u \in Urls : f[u] \in CrawlArticles(u)}
  /\ newsInsertOK \in [Pages -> BOOLEAN]
  /\ mainpc = "map"
  /\ nextPage = 1
  /\ queue = <<>>
  /\ running = {}
  /\ pc = [p \in Pages |-> "unsubmitted"]
  /\ news_links = [p \in Pages |-> <<>>]
  /\ attempted = [p \in Pages |-> <<>>]
  /\ news = [p \in Pages |-> <<>>]
  /\ stats_args = [p \in Pages |-> <<>>]
  /\ stats_collection = <<>>
  /\ news_collection = <<>>
  /\ report = <<>>
  /\ WordsIdle /\ ListingIdle /\ ExtractIdle

\* executor.map submits the pages one by one, in order
Submit ==
  /\ mainpc = "map"
  /\ queue' = Append(queue, nextPage)
  /\ pc' = [pc EXCEPT ![nextPage] = "queued"]
  /\ nextPage' = nextPage + 1
  /\ mainpc' = IF nextPage = MaxPages THEN "shutdown" ELSE "map"
  /\ UNCHANGED <<threads, listingWeb, articleWeb, newsInsertOK, running, news_links,
                 attempted, news, stats_args, stats_collection, news_collection,
                 report, wordVars, listingVars, extractVars>>

\* a free worker thread takes the next page off the queue
TakePage ==
  /\ Cardinality(running) < threads
  /\ queue # <<>>
  /\ running' = running \cup {Head(queue)}
  /\ queue' = Tail(queue)
  /\ pc' = [pc EXCEPT ![Head(queue)] = "fetch_page"]
  /\ UNCHANGED <<threads, listingWeb, articleWeb, newsInsertOK, mainpc, nextPage,
                 news_links, attempted, news, stats_args, stats_collection,
                 news_collection, report, wordVars, listingVars, extractVars>>

\* fetch_page up to news_links; on a failure fetch_page returns []
FetchListing(p) ==
  /\ p \in running
  /\ pc[p] = "fetch_page"
  /\ LET got == NewsLinks(listingWeb[p])
     IN /\ news_links' = [news_links EXCEPT ![p] = got.links]
        /\ pc' = [pc EXCEPT ![p] = IF got.ok /\ got.links # <<>>
                                   THEN "fetch_loop" ELSE "store_stats"]
  /\ UNCHANGED <<threads, listingWeb, articleWeb, newsInsertOK, mainpc, nextPage,
                 queue, running, attempted, news, stats_args, stats_collection,
                 news_collection, report, wordVars, listingVars, extractVars>>

\* one fetch_news call of the loop of fetch_page
FetchArticle(p) ==
  /\ p \in running
  /\ pc[p] = "fetch_loop"
  /\ LET step == fetch_loop_step(news_links[p], attempted[p], news[p], articleWeb)
     IN /\ attempted' = [attempted EXCEPT ![p] = step.attempted]
        /\ news' = [news EXCEPT ![p] = step.news]
        /\ pc' = [pc EXCEPT ![p] = IF step.finished THEN "store_stats" ELSE "fetch_loop"]
  /\ UNCHANGED <<threads, listingWeb, articleWeb, newsInsertOK, mainpc, nextPage,
                 queue, running, news_links, stats_args, stats_collection,
                 news_collection, report, wordVars, listingVars, extractVars>>

\* the counts and store_stats; with no news the call returns here
StoreStats(p) ==
  /\ p \in running
  /\ pc[p] = "store_stats"
  /\ \E ok \in BOOLEAN :
       LET args == analyze(news[p], attempted[p])
           stored == store_stats(stats_collection, args, ok)
           next == IF stored.raised THEN "raised"
                   ELSE IF news[p] = <<>> THEN "returned" ELSE "store_news"
       IN /\ stats_args' = [stats_args EXCEPT ![p] = <<args>>]
          /\ stats_collection' = stored.coll
          /\ pc' = [pc EXCEPT ![p] = next]
          /\ running' = IF next = "store_news" THEN running ELSE running \ {p}
  /\ UNCHANGED <<threads, listingWeb, articleWeb, newsInsertOK, mainpc, nextPage,
                 queue, news_links, attempted, news, news_collection, report,
                 wordVars, listingVars, extractVars>>

\* store_news_data, then the call returns
StoreNews(p) ==
  /\ p \in running
  /\ pc[p] = "store_news"
  /\ LET stored == store_news_data(news_collection, news[p], newsInsertOK[p])
     IN /\ news_collection' = stored.coll
        /\ pc' = [pc EXCEPT ![p] = IF stored.raised THEN "raised" ELSE "returned"]
  /\ running' = running \ {p}
  /\ UNCHANGED <<threads, listingWeb, articleWeb, newsInsertOK, mainpc, nextPage,
                 queue, news_links, attempted, news, stats_args, stats_collection,
                 report, wordVars, listingVars, extractVars>>

\* a variant that does not wait: shutdown(wait=False)
JoinedNoWait == TRUE

\* leaving the with block: shutdown(wait=True) joins the worker threads, which
\* end when the queue is empty
Joined == queue = <<>> /\ running = {}

Shutdown ==
  /\ mainpc = "shutdown"
  /\ Joined
  /\ mainpc' = "find"
  /\ UNCHANGED <<threads, listingWeb, articleWeb, newsInsertOK, nextPage, queue,
                 running, pc, news_links, attempted, news, stats_args,
                 stats_collection, news_collection, report, wordVars,
                 listingVars, extractVars>>

\* for item in news_collection.find(): outside any try, a failure ends main
FindAll ==
  /\ mainpc = "find"
  /\ \E ok \in BOOLEAN :
       IF ok
       THEN /\ all_news_texts' = [i \in 1..Len(news_collection) |-> news_collection[i].text]
            /\ mainpc' = "words"
       ELSE /\ mainpc' = "crashed"
            /\ UNCHANGED all_news_texts
  /\ UNCHANGED <<threads, listingWeb, articleWeb, newsInsertOK, nextPage, queue,
                 running, pc, news_links, attempted, news, stats_args,
                 stats_collection, news_collection, report,
                 word_frequency_collection, wf_call, runs, prev_call,
                 listingVars, extractVars>>

MostCommonWords ==
  /\ mainpc = "words"
  /\ \E failAt \in 0..(InsertCount(all_news_texts) + 1), plotFails \in BOOLEAN :
       LET r == find_most_common_words(all_news_texts, word_frequency_collection,
                                       failAt, plotFails)
       IN /\ plotFails => failAt = InsertCount(all_news_texts) + 1
          /\ wf_call' = r
          /\ word_frequency_collection' = r.coll
          /\ prev_call' = wf_call
  /\ runs' = runs + 1
  /\ mainpc' = "report"
  /\ UNCHANGED <<threads, listingWeb, articleWeb, newsInsertOK, nextPage, queue,
                 running, pc, news_links, attempted, news, stats_args,
                 stats_collection, news_collection, report, all_news_texts,
                 listingVars, extractVars>>

Report ==
  /\ mainpc = "report"
  /\ \E ok \in BOOLEAN :
       report' = IF ok THEN GroupedByUpdateDate(news_collection) ELSE <<>>
  /\ mainpc' = "done"
  /\ UNCHANGED <<threads, listingWeb, articleWeb, newsInsertOK, nextPage, queue,
                 running, pc, news_links, attempted, news, stats_args,
                 stats_collection, news_collection, wordVars, listingVars,
                 extractVars>>

Next ==
  \/ Submit
  \/ TakePage
  \/ \E p \in Pages : FetchListing(p)
  \/ \E p \in Pages : FetchArticle(p)
  \/ \E p \in Pages : StoreStats(p)
  \/ \E p \in Pages : StoreNews(p)
  \/ Shutdown
  \/ FindAll
  \/ MostCommonWords
  \/ Report

Spec == Init /\ [][Next]_vars

\* ================================================================== claims

\* ---- C6 (SpecListing) -------------------------------------------------
\* C6: for a listing page that was fetched and has m post-link anchors, those in
\* the window carrying an href, the listing part of fetch_page yields exactly
\* the hrefs of the anchors at document positions 10 .. min(m, 20) - 1, in
\* order: 10 of them when m >= 20, none (and no error) when m <= 10, and
\* m - 10 of them in between.
WindowHasHrefs(doc) ==
  \A i \in 1..Len(doc.anchors) : (11 <= i /\ i <= 20) => doc.anchors[i].has_href

C6_ListingWindow ==
  (listing_result.done /\ listing_doc.status = "ok" /\ WindowHasHrefs(listing_doc)) =>
    LET m == Len(listing_doc.anchors)
        got == listing_result.got
        n == IF m >= 20 THEN 10 ELSE IF m <= 10 THEN 0 ELSE m - 10
    IN /\ got.ok
       /\ Len(got.links) = n
       /\ \A k \in 1..n : got.links[k] = listing_doc.anchors[10 + k].href

C6_Witness ==
  /\ listing_result.done
  /\ listing_doc.status = "ok"
  /\ Len(listing_doc.anchors) > 20
  /\ ~listing_doc.anchors[5].has_href
  /\ listing_result.got.ok
  /\ Len(listing_result.got.links) = 10

\* ---- C7 (SpecExtract) -------------------------------------------------
OtherwiseFine(doc) ==
  /\ doc.status = "ok"
  /\ doc.title.present
  /\ doc.summary.present
  /\ doc.body.present
  /\ doc.meta.kind = "ok"

SomeImgLacksSrc(doc) == \E i \in 1..Len(doc.imgs) : doc.imgs[i] = NoAttr

\* C7 as stated: an image without the lazy-load attribute is skipped,
\* the other sources are kept in order and a full record is returned.
C7_AsClaimed ==
  (article_result.done /\ OtherwiseFine(article_doc) /\ SomeImgLacksSrc(article_doc)) =>
    /\ article_result.got.data # <<>>
    /\ article_result.got.data[1].img_url_list =
         SelectSeq(article_doc.imgs, LAMBDA x : x # NoAttr)

\* C7 as amended: on a page that is otherwise fine, an image without the
\* lazy-load attribute makes fetch_news return None (logged as an unexpected
\* error, nothing raised, no partial record); when every image carries the
\* attribute the record holds all their sources in document order.
C7_MissingSrcFailsRecord ==
  (article_result.done /\ OtherwiseFine(article_doc)) =>
    IF SomeImgLacksSrc(article_doc)
    THEN /\ article_result.got.data = <<>>
         /\ article_result.got.log = "Exception"
    ELSE /\ article_result.got.data # <<>>
         /\ article_result.got.data[1].img_url_list = article_doc.imgs

C7_Witness ==
  /\ article_result.done
  /\ OtherwiseFine(article_doc)
  /\ Len(article_doc.imgs) = 2
  /\ article_doc.imgs[1] = "i1"
  /\ article_doc.imgs[2] = NoAttr
  /\ article_result.got.data = <<>>

\* ---- C8 (SpecWords) ---------------------------------------------------
Occurrences(w, ws) == Cardinality({i \in 1..Len(ws) : ws[i] = w})

\* C8: two successive calls on the same texts whose MongoDB operations all work
\* leave the same word_frequency collection (the second replaces, it does not
\* add); and whatever fails, the collection never holds a word twice nor a
\* count other than the word's count in one pass over the texts.
C8_SecondRunReplaces ==
  /\ (runs >= 2 /\ ~prev_call.storage_failed /\ ~wf_call.storage_failed) =>
       /\ word_frequency_collection = prev_call.coll
       /\ Len(word_frequency_collection) = Len(wf_call.most_common_words)
  /\ \A i \in 1..Len(word_frequency_collection) :
       /\ word_frequency_collection[i].count =
            Occurrences(word_frequency_collection[i].word, wf_call.words)
       /\ \A j \in 1..Len(word_frequency_collection) :
            word_frequency_collection[i].word = word_frequency_collection[j].word => i = j

C8_Witness ==
  /\ runs = 2
  /\ ~prev_call.storage_failed
  /\ ~wf_call.storage_failed
  /\ Len(word_frequency_collection) >= 2
  /\ word_frequency_collection = prev_call.coll

\* ---- C9 (SpecWords) ---------------------------------------------------
FirstIndex(w, ws) == CHOOSE i \in 1..Len(ws) : ws[i] = w /\ \A j \in 1..(i - 1) : ws[j] # w

\* word v ranks before word w: more occurrences, or as many and seen first
RanksBefore(v, w, ws) ==
  \/ Occurrences(v, ws) > Occurrences(w, ws)
  \/ /\ Occurrences(v, ws) = Occurrences(w, ws)
     /\ FirstIndex(v, ws) < FirstIndex(w, ws)

NonSpace(s) == SelectSeq(s, LAMBDA c : c \notin {" ", "\t", "\n"})

\* the number of maximal runs of non-whitespace characters of s
RunStarts(s) ==
  {i \in 1..Len(s) : s[i] \notin {" ", "\t", "\n"} /\ (i = 1 \/ s[i - 1] \in {" ", "\t", "\n"})}

\* C9: the words are the whitespace-separated tokens of the texts joined by one
\* space; the result holds min(10, distinct words) entries, each with its
\* word's number of occurrences, in descending count, equal counts in order
\* of first occurrence, and no word left out ranks before one that is in.
\* On ["a b b", "c c c"] the top 2 are (c,3), (b,2).
C9_TopWords ==
  wf_call.assigned =>
    LET ws == wf_call.words
        top == wf_call.most_common_words
        joined == Join(<<" ">>, all_news_texts)
        distinct == {ws[i] : i \in 1..Len(ws)}
        inTop == {top[i].word : i \in 1..Len(top)}
    IN /\ Len(ws) = Cardinality(RunStarts(joined))
       /\ \A i \in 1..Len(ws) : ws[i] # <<>> /\ NonSpace(ws[i]) = ws[i]
       /\ Join(<<>>, ws) = NonSpace(joined)
       /\ Len(top) = Min(10, Cardinality(distinct))
       /\ inTop \subseteq distinct
       /\ \A i \in 1..Len(top) : top[i].count = Occurrences(top[i].word, ws)
       /\ \A i, j \in 1..Len(top) : i < j => RanksBefore(top[i].word, top[j].word, ws)
       /\ \A w \in distinct \ inTop : \A v \in inTop : RanksBefore(v, w, ws)
       /\ all_news_texts = ExampleTexts =>
            most_common(Counter(ws), 2) =
              << [word |-> <<"c">>, count |-> 3], [word |-> <<"b">>, count |-> 2] >>

C9_Witness ==
  /\ wf_call.assigned
  /\ Len(wf_call.most_common_words) = 10
  /\ Cardinality({wf_call.words[i] : i \in 1..Len(wf_call.words)}) > 10
  /\ wf_call.most_common_words[1].count > wf_call.most_common_words[2].count
  /\ wf_call.most_common_words[2].count = wf_call.most_common_words[3].count

\* ---- C1 (Spec) --------------------------------------------------------
Succeeds(u) == fetch_news(u, articleWeb[u]).data # <<>>

FailedUrls(p) == {i \in 1..Len(attempted[p]) : ~Succeeds(attempted[p][i])}

\* C1 as stated: the fail count handed to store_stats for a page is
\* the number of its URLs whose fetch_news failed, and the total is the
\* number of URLs attempted.
C1_FailCountCountsFailures ==
  \A p \in Pages :
    stats_args[p] # <<>> =>
      /\ stats_args[p][1].fail_count = Cardinality(FailedUrls(p))
      /\ stats_args[p][1].count = Len(attempted[p])

\* ---- C2 (Spec) --------------------------------------------------------
CountsAddUp(d) ==
  /\ d.success_count + d.fail_count = d.count
  /\ d.success_count >= 0
  /\ d.fail_count >= 0
  /\ d.count >= 0

\* C2: every outcome handed to store_stats, and every document of the stats
\* collection, has success_count + fail_count = count, none negative.
C2_CountsAddUp ==
  /\ \A p \in Pages : stats_args[p] # <<>> => CountsAddUp(stats_args[p][1])
  /\ \A i \in 1..Len(stats_collection) : CountsAddUp(stats_collection[i])

C2_Witness ==
  \E p, q \in Pages :
    /\ stats_args[p] # <<>>
    /\ Len(attempted[p]) = 2
    /\ Cardinality(FailedUrls(p)) = 1
    /\ stats_args[q] # <<>>
    /\ listingWeb[q].status = "error"
    /\ Len(stats_collection) = 2

\* ---- C3 (Spec) --------------------------------------------------------
\* C3: once main is past the with block (reading the news collection, counting
\* words, reporting), every page's analyze_and_store_data call has ended:
\* nothing is queued and no worker thread is running.
C3_PostPassAfterJoin ==
  mainpc \in PostPass =>
    /\ queue = <<>>
    /\ running = {}
    /\ \A p \in Pages : pc[p] \in {"returned", "raised"}

C3_Witness ==
  /\ mainpc = "words"
  /\ threads = MaxThreads
  /\ Len(all_news_texts) >= 3
  /\ \A p \in Pages : pc[p] = "returned"

\* ---- C4 (Spec) --------------------------------------------------------
\* what page p stores, by the site and the database alone
PageStores(p) ==
  LET got == NewsLinks(listingWeb[p])
      ok == SelectSeq(got.links, Succeeds)
  IN IF got.ok /\ newsInsertOK[p]
     THEN [i \in 1..Len(ok) |-> fetch_news(ok[i], articleWeb[ok[i]]).data[1]]
     ELSE <<>>

\* what a pool of one thread stores: the pages one after the other
RECURSIVE SequentialStore(_)
SequentialStore(n) ==
  IF n = 0 THEN <<>> ELSE SequentialStore(n - 1) \o PageStores(n)

Times(r, recs) == Cardinality({i \in 1..Len(recs) : recs[i] = r})

SameRecords(a, b) ==
  /\ Len(a) = Len(b)
  /\ \A i \in 1..Len(a) : Times(a[i], a) = Times(a[i], b)

\* C4: when the pool is done the news collection holds the records a single
\* thread stores for the same site, each as often, whatever the pool size
\* and the interleaving; with one thread it holds them in that order.
C4_SameRecordsAnyPool ==
  mainpc \in PostPass =>
    /\ SameRecords(news_collection, SequentialStore(MaxPages))
    /\ threads = 1 => news_collection = SequentialStore(MaxPages)

C4_Witness ==
  /\ mainpc \in PostPass
  /\ threads = MaxThreads
  /\ Len(news_collection) >= 3
  /\ news_collection # SequentialStore(MaxPages)

\* ---- C5 (Spec) --------------------------------------------------------
\* C5: no analyze_and_store_data call ends by raising, whatever fails; a call
\* that is over has returned; and until main is past the pool some step is
\* always possible, so every page is crawled and the post-pass is reached.
C5_NeverRaises ==
  /\ \A p \in Pages : pc[p] # "raised"
  /\ \A p \in Pages :
       (p \notin running /\ pc[p] \notin {"unsubmitted", "queued"}) => pc[p] = "returned"
  /\ mainpc \in {"map", "shutdown"} => ENABLED Next

C5_Witness ==
  \E p, q \in Pages :
    /\ mainpc = "done"
    /\ listingWeb[p].status = "error"
    /\ Len(attempted[q]) = 2
    /\ Len(news[q]) = 1
    /\ ~newsInsertOK[q]
    /\ stats_collection = <<>>
    /\ pc[p] = "returned"
    /\ pc[q] = "returned"

\* ---- C10 (Spec) -------------------------------------------------------
IsPrefix(a, b) == Len(a) <= Len(b) /\ \A i \in 1..Len(a) : a[i] = b[i]

\* C10: within a page no article is fetched before the listing is; the URLs
\* handed to fetch_news are, in order, a prefix of the listing window, and
\* all of it once the loop is over, failures included; news holds the
\* records of the URLs that succeeded, in that order.
C10_PageOrder ==
  \A p \in Pages :
    /\ pc[p] \in {"unsubmitted", "queued", "fetch_page"} =>
         attempted[p] = <<>> /\ news[p] = <<>>
    /\ IsPrefix(attempted[p], news_links[p])
    /\ pc[p] \notin {"unsubmitted", "queued", "fetch_page"} =>
         news_links[p] = NewsLinks(listingWeb[p]).links
    /\ pc[p] \in {"store_stats", "store_news", "returned"} =>
         attempted[p] = news_links[p]
    /\ [i \in 1..Len(news[p]) |-> news[p][i].url] = SelectSeq(attempted[p], Succeeds)

C10_Witness ==
  \E p \in Pages :
    /\ pc[p] = "returned"
    /\ Len(attempted[p]) = 2
    /\ ~Succeeds(attempted[p][1])
    /\ Len(news[p]) = 1
    /\ news[p][1].url = attempted[p][2]

====
